---- MODULE Spec2Model ----
(***************************************************************************)
(* Model of OnionSiteChecker (src/onion_site_checker.py): the persistence  *)
(* store (load_existing_sites / save_sites), the entry extractor, the      *)
(* reachability prober and the crawl driver run_checker.                   *)
(*                                                                         *)
(* Strings the code inspects character-wise (hrefs, urls, domains) are     *)
(* sequences of tokens: "http://", "/", ".onion", ".com" and host labels.  *)
(* A Python dict is a record; a missing key is a missing record field.     *)
(* Timestamps (last_updated, tested_at), response_time and the link text   *)
(* are left out of the records: no control flow reads them.                *)
(***************************************************************************)
EXTENDS Integers, Sequences, FiniteSets, TLC

VARIABLES
    output_file,       \* the document on disk at self.output_file
    accessible_sites,  \* self.accessible_sites
    pc,                \* position of run_checker
    max_pages,         \* argument of run_checker
    page_number,       \* local of run_checker
    pages_checked,     \* local of run_checker
    sites_found,       \* local of run_checker
    sites_accessible,  \* local of run_checker
    onion_sites,       \* candidates of the page being processed
    idx,               \* position of the for loop in onion_sites
    nFetch,            \* history: listing-page GETs issued
    nProbeReq,         \* history: candidate GETs issued
    nSleep,            \* history: inter-request time.sleep calls made
    fetched,           \* history: page numbers whose fetch was attempted
    probeLog,          \* history: whether the GET of each probed candidate gave 200
    dirty,             \* history: an append has had no save_sites call yet
    nPageSleep,        \* history: inter-page time.sleep calls made
    tor_result,        \* history: outcome of the connectivity check
    exit_via,          \* history: how the while loop was left
    tick,              \* history: parity of the listing fetches issued
    run,               \* which run of main() this is: "first" or "second"
    initial_doc,       \* history: the document on disk at construction
    save_failures,     \* history: save_sites calls of the run that failed
    html_content,      \* local of run_checker: the body last fetched
    last               \* history: the step taken last

vars == <<output_file, accessible_sites, pc, max_pages, page_number,
          pages_checked, sites_found, sites_accessible, onion_sites, idx,
          nFetch, nProbeReq, nSleep, nPageSleep, fetched, probeLog, dirty,
          tor_result, exit_via, tick, run, initial_doc, save_failures,
          html_content, last>>

----------------------------------------------------------------------------
(* Bounds of the model *)

MaxPagesBound == 2     \* max_pages ranges over 0..MaxPagesBound
MaxFetches == 3        \* listing fetches recorded in one run
StartPage == 1         \* start_page

----------------------------------------------------------------------------
(* Strings as token sequences *)

Last(s) == s[Len(s)]

EndsWith(s, t) == Len(s) > 0 /\ Last(s) = t

\* '.onion/' in href
ContainsOnionSlash(s) ==
    \E i \in 1..(Len(s) - 1) : s[i] = ".onion" /\ s[i + 1] = "/"

\* href.startswith('http'); the label "http" stands for a host name that
\* begins with these four letters
StartsWithHttp(s) == Len(s) > 0 /\ s[1] \in {"http://", "https://", "http"}

RECURSIVE LStripSlash(_)
LStripSlash(s) ==
    IF Len(s) > 0 /\ s[1] = "/" THEN LStripSlash(Tail(s)) ELSE s

RECURSIVE UpToSlash(_)
UpToSlash(s) ==
    IF Len(s) = 0 \/ s[1] = "/" THEN <<>> ELSE <<s[1]>> \o UpToSlash(Tail(s))

\* urlparse(href).netloc: what follows "scheme://" up to the next "/"
Netloc(s) ==
    IF Len(s) > 0 /\ s[1] \in {"http://", "https://"}
    THEN UpToSlash(Tail(s))
    ELSE <<>>

----------------------------------------------------------------------------
(* Entry Extractor *)

NormalizeHref(href) ==
    IF StartsWithHttp(href) THEN href ELSE <<"http://">> \o LStripSlash(href)

RECURSIVE ExtractLinks(_, _, _)
ExtractLinks(links, page, n) ==
    IF links = <<>> THEN <<>>
    ELSE LET href == links[1]
             url == NormalizeHref(href)
             onion_domain == Netloc(url)
             rest == ExtractLinks(Tail(links), page, n + 1)
         IN IF (EndsWith(href, ".onion") \/ ContainsOnionSlash(href))
               /\ onion_domain # <<>> /\ EndsWith(onion_domain, ".onion")
            THEN <<[domain |-> onion_domain, url |-> url,
                    link |-> <<page, n>>]>> \o rest
            ELSE rest

\* html is [page |-> the page it is the listing of, link_list |-> whether it
\* has the element with id link_list, links |-> the hrefs of the <a href>
\* elements inside that element].  The field link of a candidate (the page
\* and the position of its <a> element) is the identity of its site_info dict.
extract_onion_sites(html) ==
    IF ~html.link_list THEN <<>> ELSE ExtractLinks(html.links, html.page, 1)

----------------------------------------------------------------------------
(* Persistence Store *)

Absent == [type |-> "absent"]
\* a file json.load cannot parse (empty or cut short)
Invalid == [type |-> "invalid"]

\* a file whose bytes are not text in the locale's encoding (a UTF-8 document
\* cut inside a multi-byte character, binary data)
Undecodable == [type |-> "undecodable"]

\* json.load raises UnicodeDecodeError, which is neither a JSONDecodeError
\* nor an IOError: the except clause of load_existing_sites lets it through
LoadRaises(file) == file.type = "undecodable"

\* mutant: the legacy bare array is not read
load_existing_sites_NoLegacy(file) ==
    IF file.type = "dict" /\ "accessible_sites" \in DOMAIN file.value
    THEN file.value.accessible_sites
    ELSE <<>>

\* mutant: the enclosing object is read under the key 'entries'
load_existing_sites_EntriesKey(file) ==
    IF file.type = "dict" /\ "entries" \in DOMAIN file.value
    THEN file.value.entries
    ELSE IF file.type = "list" THEN file.value
    ELSE <<>>

\* the value load_existing_sites returns when it returns
load_existing_sites(file) ==
    IF file.type = "absent" THEN <<>>
    ELSE IF file.type = "invalid" THEN <<>>
    ELSE IF file.type = "dict" /\ "accessible_sites" \in DOMAIN file.value
         THEN file.value.accessible_sites
    ELSE IF file.type = "list" THEN file.value
    ELSE <<>>

\* an entry as json.dump writes it: the keys and values of the dict; the
\* identity of the dict object (link) is not part of the text
JsonEntry(e) == [k \in DOMAIN e \ {"link"} |-> e[k]]

JsonEntries(sites) == [i \in 1..Len(sites) |-> JsonEntry(sites[i])]

\* the legacy document: the bare array of the entries
LegacyDocument(sites) == [type |-> "list", value |-> JsonEntries(sites)]

\* mutant: the count is the number of distinct domains
SavedDocument_DistinctCount(sites) ==
    [type |-> "dict",
     value |-> [total_accessible_sites |->
                    Cardinality({JsonEntries(sites)[i] : i \in 1..Len(sites)}),
                accessible_sites |-> JsonEntries(sites)]]

\* the data dict of save_sites, as json.dump writes it
SavedDocument(sites) ==
    [type |-> "dict",
     value |-> [total_accessible_sites |-> Len(sites),
                accessible_sites |-> JsonEntries(sites)]]

\* open(output_file, 'w') and json.dump under the IO outcome io
WriteFile(file, sites, io) ==
    CASE io = "ok" -> SavedDocument(sites)
      [] io = "open_fails" -> file
      [] io = "write_fails" -> Invalid

IOOutcomes == {"ok", "open_fails", "write_fails"}

----------------------------------------------------------------------------
(* Inputs: the documents found on disk at construction, the listing pages  *)
(* the directory serves, the outcomes of the network calls                 *)

OnionA == <<"a", ".onion">>
OnionB == <<"b", ".onion">>

StoredEntry(d) ==
    [domain |-> d, url |-> <<"http://">> \o d, status |-> "accessible"]

\* an entry without the key 'domain'
EntryNoDomain == [url |-> <<"http://">> \o OnionB, status |-> "accessible"]

InitialDocuments ==
    { Absent,
      Invalid,
      Undecodable,
      [type |-> "other"],
      SavedDocument(<<StoredEntry(OnionA)>>),
      SavedDocument(<<EntryNoDomain, StoredEntry(OnionA)>>),
      [type |-> "dict", value |-> [entries |-> <<StoredEntry(OnionA)>>]],
      [type |-> "list", value |-> <<StoredEntry(OnionB)>>],
      [type |-> "list",
       value |-> <<StoredEntry(OnionA), StoredEntry(OnionA)>>] }

ListingLinks ==
    { << <<"a", ".onion">>, <<"http://", "b", ".onion", "/", "x">> >>,
      << <<"/", "a", ".onion">>, <<"notonion", ".com">>, <<"a", ".onion">> >>,
      << <<"http", "b", ".onion">> >>,
      << >> }

\* the bodies a 200 response to ?page=p can carry
Listings(p) ==
    { [page |-> p, link_list |-> FALSE, links |-> <<>>] }
    \cup { [page |-> p, link_list |-> TRUE, links |-> l] : l \in ListingLinks }

TorOutcomes == {"200", "200_bad_json", "non200", "Exception"}
FetchFailures == {"non200", "Exception", "200_empty_body"}
ProbeFailures == {"non200", "Timeout", "ConnectionError", "Exception"}
Raised == {"KeyboardInterrupt", "Exception"}

Step(op, page, outcome) == [op |-> op, page |-> page, outcome |-> outcome]

\* html_content when no page has been fetched or the fetch returned None
NoContent == [none |-> TRUE]

----------------------------------------------------------------------------
(* Reachability Prober *)

\* mutant: the scan never finds the domain
ScanExisting_Blind(sites, domain) == "not_found"

\* the scan of self.accessible_sites for the candidate's domain, in list
\* order: existing_site['domain'] raises KeyError on an entry without the key
RECURSIVE ScanExisting(_, _)
ScanExisting(sites, domain) ==
    IF sites = <<>> THEN "not_found"
    ELSE IF "domain" \notin DOMAIN sites[1] THEN "KeyError"
    ELSE IF sites[1].domain = domain THEN "found"
    ELSE ScanExisting(Tail(sites), domain)

\* mutant: any HTTP response counts as accessible
ProbeVerdict_AnyStatus(response) == response \in {"200", "non200"}

\* the return value of the try block for the response of session.get
ProbeVerdict(response) == response = "200"

\* site_info['status'] = 'accessible'
MarkAccessible(site_info) ==
    [k \in DOMAIN site_info \cup {"status"} |->
        IF k = "status" THEN "accessible" ELSE site_info[k]]

\* test_onion_site_accessibility: raised, the value returned, whether a GET
\* was issued, and site_info as the call leaves it
test_onion_site_accessibility(sites, site_info, response) ==
    LET scan == ScanExisting(sites, site_info.domain) IN
    CASE scan = "KeyError" ->
            [raised |-> TRUE, ret |-> FALSE, request |-> FALSE,
             site_info |-> site_info]
      [] scan = "found" ->
            [raised |-> FALSE, ret |-> FALSE, request |-> FALSE,
             site_info |-> site_info]
      [] scan = "not_found" ->
            [raised |-> FALSE, ret |-> ProbeVerdict(response), request |-> TRUE,
             site_info |-> IF ProbeVerdict(response)
                           THEN MarkAccessible(site_info) ELSE site_info]

----------------------------------------------------------------------------
(* Crawl Driver *)

\* OnionSiteChecker(output_file) as main() constructs it: an exception of
\* load_existing_sites ends the process before run_checker is called
Init ==
    /\ output_file \in InitialDocuments
    /\ accessible_sites = load_existing_sites(output_file)
    /\ max_pages \in 0..MaxPagesBound
    /\ pc = IF LoadRaises(output_file) THEN "crashed" ELSE "start"
    /\ run = "first"
    /\ initial_doc = output_file
    /\ save_failures = 0
    /\ html_content = NoContent
    /\ page_number = StartPage
    /\ pages_checked = 0
    /\ sites_found = 0
    /\ sites_accessible = 0
    /\ onion_sites = <<>>
    /\ idx = 1
    /\ nFetch = 0
    /\ nProbeReq = 0
    /\ nSleep = 0
    /\ nPageSleep = 0
    /\ fetched = <<>>
    /\ probeLog = {}
    /\ dirty = FALSE
    /\ tor_result = "none"
    /\ exit_via = "none"
    /\ tick = FALSE
    /\ last = Step("none", 0, "none")

\* mutant: the status alone decides, the exception of response.json() escapes
TorConnected_StatusOnly(r) == r \in {"200", "200_bad_json"}

\* the value test_tor_connection returns for the outcome of its GET
TorConnected(r) == r = "200"

\* if not self.test_tor_connection(): return
TestTorConnection ==
    /\ pc = "start"
    /\ \E r \in TorOutcomes :
          /\ pc' = IF TorConnected(r) THEN "while" ELSE "aborted"
          /\ tor_result' = r
          /\ last' = Step("tor", 0, r)
    /\ UNCHANGED <<output_file, accessible_sites, max_pages, page_number,
                   pages_checked, sites_found, sites_accessible, onion_sites,
                   idx, nFetch, nProbeReq, nSleep, nPageSleep, fetched,
                   probeLog, dirty, exit_via, tick, run, initial_doc,
                   save_failures, html_content>>

\* mutant: the failed page is retried
PageAfterFailure_Retry(n) == n

\* page_number after a fetch of page n that gave no content
PageAfterFailure(n) == n + 1

\* the history of a listing fetch; counted while the bound allows
FetchCounted ==
    /\ nFetch < MaxFetches
    /\ nFetch' = nFetch + 1
    /\ fetched' = Append(fetched, page_number)
    /\ tick' = ~tick

\* fetch_onion_listing_page returned None or '': page_number += 1; continue
FetchFails ==
    /\ pc = "while"
    /\ pages_checked < max_pages
    /\ FetchCounted
    /\ \E r \in FetchFailures : last' = Step("fetch_failed", page_number, r)
    /\ html_content' = NoContent
    /\ page_number' = PageAfterFailure(page_number)
    /\ pc' = "while"
    /\ UNCHANGED <<tor_result, output_file, accessible_sites, max_pages,
                   pages_checked, sites_found, sites_accessible, onion_sites,
                   idx, nProbeReq, nSleep, nPageSleep, probeLog, dirty,
                   exit_via, run, initial_doc, save_failures>>

\* fetch_onion_listing_page returned markup: extract and enter the for loop
FetchSucceeds ==
    /\ pc = "while"
    /\ pages_checked < max_pages
    /\ FetchCounted
    /\ \E html \in Listings(page_number) :
          /\ html_content' = html
          /\ onion_sites' = extract_onion_sites(html)
          /\ sites_found' = sites_found + Len(extract_onion_sites(html))
    /\ idx' = 1
    /\ pc' = "for"
    /\ last' = Step("fetch_ok", page_number, "200")
    /\ UNCHANGED <<tor_result, output_file, accessible_sites, max_pages,
                   page_number, pages_checked, sites_accessible, nProbeReq,
                   nSleep, nPageSleep, probeLog, dirty, exit_via, run,
                   initial_doc, save_failures>>

\* while pages_checked < max_pages is false
LoopExit ==
    /\ pc = "while"
    /\ ~(pages_checked < max_pages)
    /\ pc' = "final"
    /\ exit_via' = "page_bound"
    /\ last' = Step("loop_exit", page_number, "none")
    /\ UNCHANGED <<tor_result, output_file, accessible_sites, max_pages,
                   page_number, pages_checked, sites_found, sites_accessible,
                   onion_sites, idx, nFetch, nProbeReq, nSleep, nPageSleep,
                   fetched, probeLog, dirty, tick, run, initial_doc,
                   save_failures, html_content>>

\* if self.test_onion_site_accessibility(site_info):
Probe ==
    /\ pc = "for"
    /\ idx <= Len(onion_sites)
    /\ \E response \in {"200"} \cup ProbeFailures :
        LET t == test_onion_site_accessibility(accessible_sites,
                                               onion_sites[idx], response)
        IN \* without a GET there is one outcome, whatever the response
           /\ (~t.request) => response = "200"
           /\ onion_sites' = [onion_sites EXCEPT ![idx] = t.site_info]
           /\ nProbeReq' = IF t.request THEN nProbeReq + 1 ELSE nProbeReq
           /\ probeLog' = IF t.request
                           THEN probeLog \cup {[link |-> onion_sites[idx].link,
                                                ok |-> response = "200"]}
                           ELSE probeLog
           /\ pc' = IF t.raised THEN "final"
                     ELSE IF t.ret THEN "append" ELSE "sleep"
           /\ exit_via' = IF t.raised THEN "Exception" ELSE exit_via
           /\ last' = Step("probe", page_number,
                            IF t.raised THEN "KeyError"
                            ELSE IF ~t.request THEN "skipped" ELSE response)
    /\ UNCHANGED <<tor_result, output_file, accessible_sites, max_pages,
                   page_number, pages_checked, sites_found, sites_accessible,
                   idx, nFetch, nSleep, nPageSleep, fetched, dirty, tick, run,
                   initial_doc, save_failures, html_content>>

\* mutant: the new entry is put in front of the list
AppendSite_Prepend ==
    /\ pc = "append"
    /\ accessible_sites' = <<onion_sites[idx]>> \o accessible_sites
    /\ sites_accessible' = sites_accessible + 1
    /\ dirty' = TRUE
    /\ pc' = "save"
    /\ last' = Step("append", page_number, "none")
    /\ UNCHANGED <<tor_result, output_file, max_pages, page_number,
                   pages_checked, sites_found, onion_sites, idx, nFetch,
                   nProbeReq, nSleep, nPageSleep, fetched, probeLog, exit_via,
                   tick, run, initial_doc, save_failures, html_content>>

\* mutant: the append is not followed by save_sites
AppendSite_NoSave ==
    /\ pc = "append"
    /\ accessible_sites' = Append(accessible_sites, onion_sites[idx])
    /\ sites_accessible' = sites_accessible + 1
    /\ dirty' = TRUE
    /\ pc' = "sleep"
    /\ last' = Step("append", page_number, "none")
    /\ UNCHANGED <<tor_result, output_file, max_pages, page_number,
                   pages_checked, sites_found, onion_sites, idx, nFetch,
                   nProbeReq, nSleep, nPageSleep, fetched, probeLog, exit_via,
                   tick, run, initial_doc, save_failures, html_content>>

\* self.accessible_sites.append(site_info); sites_accessible += 1
AppendSite ==
    /\ pc = "append"
    /\ accessible_sites' = Append(accessible_sites, onion_sites[idx])
    /\ sites_accessible' = sites_accessible + 1
    /\ dirty' = TRUE
    /\ pc' = "save"
    /\ last' = Step("append", page_number, "none")
    /\ UNCHANGED <<tor_result, output_file, max_pages, page_number,
                   pages_checked, sites_found, onion_sites, idx, nFetch,
                   nProbeReq, nSleep, nPageSleep, fetched, probeLog, exit_via,
                   tick, run, initial_doc, save_failures, html_content>>

\* mutant: an IO failure of save_sites ends the crawl
SaveProgress_Fatal ==
    /\ pc = "save"
    /\ \E io \in IOOutcomes :
          /\ output_file' = WriteFile(output_file, accessible_sites, io)
          /\ save_failures' = save_failures + (IF io = "ok" THEN 0 ELSE 1)
          /\ last' = Step("save", page_number, io)
          /\ pc' = IF io = "ok" THEN "sleep" ELSE "final"
    /\ dirty' = FALSE
    /\ UNCHANGED <<tor_result, accessible_sites, max_pages, page_number,
                   pages_checked, sites_found, sites_accessible, onion_sites,
                   idx, nFetch, nProbeReq, nSleep, nPageSleep, fetched,
                   probeLog, exit_via, tick, run, initial_doc, html_content>>

\* self.save_sites() inside the for loop
SaveProgress ==
    /\ pc = "save"
    /\ \E io \in IOOutcomes :
          /\ output_file' = WriteFile(output_file, accessible_sites, io)
          /\ save_failures' = save_failures + (IF io = "ok" THEN 0 ELSE 1)
          /\ last' = Step("save", page_number, io)
    /\ dirty' = FALSE
    /\ pc' = "sleep"
    /\ UNCHANGED <<tor_result, accessible_sites, max_pages, page_number,
                   pages_checked, sites_found, sites_accessible, onion_sites,
                   idx, nFetch, nProbeReq, nSleep, nPageSleep, fetched,
                   probeLog, exit_via, tick, run, initial_doc, html_content>>

\* time.sleep(delay) at the end of the for body
Sleep ==
    /\ pc = "sleep"
    /\ nSleep' = nSleep + 1
    /\ idx' = idx + 1
    /\ pc' = "for"
    /\ last' = Step("sleep", page_number, "none")
    /\ UNCHANGED <<tor_result, output_file, accessible_sites, max_pages,
                   page_number, pages_checked, sites_found, sites_accessible,
                   onion_sites, nFetch, nProbeReq, nPageSleep, fetched,
                   probeLog, dirty, exit_via, tick, run, initial_doc,
                   save_failures, html_content>>

\* the for loop is exhausted: pages_checked += 1; page_number += 1
PageDone ==
    /\ pc = "for"
    /\ idx > Len(onion_sites)
    /\ pages_checked' = pages_checked + 1
    /\ page_number' = page_number + 1
    /\ pc' = IF pages_checked + 1 < max_pages THEN "pagesleep" ELSE "while"
    /\ last' = Step("page_done", page_number, "none")
    /\ UNCHANGED <<tor_result, output_file, accessible_sites, max_pages,
                   sites_found, sites_accessible, onion_sites, idx, nFetch,
                   nProbeReq, nSleep, nPageSleep, fetched, probeLog, dirty,
                   exit_via, tick, run, initial_doc, save_failures,
                   html_content>>

\* time.sleep(page_delay)
PageSleep ==
    /\ pc = "pagesleep"
    /\ nPageSleep' = nPageSleep + 1
    /\ pc' = "while"
    /\ last' = Step("page_sleep", page_number, "none")
    /\ UNCHANGED <<tor_result, output_file, accessible_sites, max_pages,
                   page_number, pages_checked, sites_found, sites_accessible,
                   onion_sites, idx, nFetch, nProbeReq, nSleep, fetched,
                   probeLog, dirty, exit_via, tick, run, initial_doc,
                   save_failures, html_content>>

LoopPcs == {"while", "for", "append", "save", "sleep", "pagesleep"}

\* mutant: no finally clause, the exception ends run_checker
Raise_NoFinally ==
    /\ pc \in {"while", "for", "append", "save", "sleep", "pagesleep"}
    /\ \E e \in {"KeyboardInterrupt", "Exception"} :
          /\ exit_via' = e
          /\ last' = Step("raise", page_number, e)
    /\ pc' = "done"
    /\ UNCHANGED <<tor_result, output_file, accessible_sites, max_pages,
                   page_number, pages_checked, sites_found, sites_accessible,
                   onion_sites, idx, nFetch, nProbeReq, nSleep, nPageSleep,
                   fetched, probeLog, dirty, tick, run, initial_doc,
                   save_failures, html_content>>

\* KeyboardInterrupt, or an exception no inner handler catches, raised at any
\* point of the try block: both except clauses fall through to finally.  One
\* raised while save_sites is writing can leave the file cut short.
Raise ==
    /\ pc \in LoopPcs
    /\ \E e \in Raised :
          /\ exit_via' = e
          /\ last' = Step("raise", page_number, e)
    /\ output_file' \in IF pc = "save" THEN {output_file, Invalid}
                         ELSE {output_file}
    /\ pc' = "final"
    /\ UNCHANGED <<tor_result, accessible_sites, max_pages, page_number,
                   pages_checked, sites_found, sites_accessible, onion_sites,
                   idx, nFetch, nProbeReq, nSleep, nPageSleep, fetched,
                   probeLog, dirty, tick, run, initial_doc, save_failures,
                   html_content>>

\* finally: self.save_sites()
FinalSave ==
    /\ pc = "final"
    /\ \E io \in IOOutcomes :
          /\ output_file' = WriteFile(output_file, accessible_sites, io)
          /\ save_failures' = save_failures + (IF io = "ok" THEN 0 ELSE 1)
          /\ last' = Step("final_save", page_number, io)
    /\ dirty' = FALSE
    /\ pc' = "done"
    /\ UNCHANGED <<tor_result, accessible_sites, max_pages, page_number,
                   pages_checked, sites_found, sites_accessible, onion_sites,
                   idx, nFetch, nProbeReq, nSleep, nPageSleep, fetched,
                   probeLog, exit_via, tick, run, initial_doc, html_content>>

\* main() is run again on the same output file: a new OnionSiteChecker
\* loads whatever the first run left on disk
Rerun ==
    /\ pc \in {"done", "aborted"}
    /\ run = "first"
    /\ run' = "second"
    /\ initial_doc' = output_file
    /\ accessible_sites' = load_existing_sites(output_file)
    /\ max_pages' \in 0..MaxPagesBound
    /\ pc' = IF LoadRaises(output_file) THEN "crashed" ELSE "start"
    /\ page_number' = StartPage
    /\ pages_checked' = 0
    /\ sites_found' = 0
    /\ sites_accessible' = 0
    /\ onion_sites' = <<>>
    /\ idx' = 1
    /\ nFetch' = 0
    /\ nProbeReq' = 0
    /\ nSleep' = 0
    /\ nPageSleep' = 0
    /\ fetched' = <<>>
    /\ probeLog' = {}
    /\ dirty' = FALSE
    /\ tor_result' = "none"
    /\ exit_via' = "none"
    /\ tick' = FALSE
    /\ save_failures' = 0
    /\ html_content' = NoContent
    /\ last' = Step("construct", 0, "none")
    /\ UNCHANGED output_file

Next ==
    \/ TestTorConnection
    \/ FetchFails
    \/ FetchSucceeds
    \/ LoopExit
    \/ Probe
    \/ AppendSite
    \/ SaveProgress
    \/ Sleep
    \/ PageDone
    \/ PageSleep
    \/ Raise
    \/ FinalSave
    \/ Rerun

Spec == Init /\ [][Next]_vars

----------------------------------------------------------------------------
(* The unbounded run.  page_number and the fetch history grow without      *)
(* bound when fetches keep failing, and no condition of run_checker reads  *)
(* page_number; past MaxFetches the loop goes on with page_number and the  *)
(* fetch history frozen and only the parity of the fetches kept.           *)

FetchFailsOn ==
    /\ pc = "while"
    /\ pages_checked < max_pages
    /\ ~(nFetch < MaxFetches)
    /\ tick' = ~tick
    /\ \E r \in FetchFailures : last' = Step("fetch_failed", page_number, r)
    /\ html_content' = NoContent
    /\ pc' = "while"
    /\ UNCHANGED <<tor_result, output_file, accessible_sites, max_pages,
                   page_number, pages_checked, sites_found, sites_accessible,
                   onion_sites, idx, nFetch, nProbeReq, nSleep, nPageSleep,
                   fetched, probeLog, dirty, exit_via, run, initial_doc,
                   save_failures>>

FetchSucceedsOn ==
    /\ pc = "while"
    /\ pages_checked < max_pages
    /\ ~(nFetch < MaxFetches)
    /\ tick' = ~tick
    /\ \E html \in Listings(page_number) :
          /\ html_content' = html
          /\ onion_sites' = extract_onion_sites(html)
          /\ sites_found' = sites_found + Len(extract_onion_sites(html))
    /\ idx' = 1
    /\ pc' = "for"
    /\ last' = Step("fetch_ok", page_number, "200")
    /\ UNCHANGED <<tor_result, output_file, accessible_sites, max_pages,
                   page_number, pages_checked, sites_accessible, nFetch,
                   nProbeReq, nSleep, nPageSleep, fetched, probeLog, dirty,
                   exit_via, run, initial_doc, save_failures>>

\* the steps of run_checker itself: every network call and sleep returns
Proceed ==
    \/ TestTorConnection
    \/ FetchFails
    \/ FetchSucceeds
    \/ FetchFailsOn
    \/ FetchSucceedsOn
    \/ LoopExit
    \/ Probe
    \/ AppendSite
    \/ SaveProgress
    \/ Sleep
    \/ PageDone
    \/ PageSleep
    \/ FinalSave

LiveNext == Proceed \/ Raise \/ Rerun

LiveSpec == Init /\ [][LiveNext]_vars /\ WF_vars(Proceed)

----------------------------------------------------------------------------
(* Claims *)

Range(f) == {f[i] : i \in DOMAIN f}

\* a save_sites call has just written its document
JustSaved == last.op \in {"save", "final_save"} /\ last.outcome = "ok"

\* no two entries of the sequence carry the same domain
UniqueDomains(sites) ==
    \A i, j \in 1..Len(sites) :
        (i # j /\ "domain" \in DOMAIN sites[i] /\ "domain" \in DOMAIN sites[j])
            => sites[i].domain # sites[j].domain

\* an entry appended by run_checker: the site_info dict of a candidate
IsCandidate(e) == "link" \in DOMAIN e

\* the candidate the for loop is at has the domain of an entry of the set
KnownCandidate ==
    /\ pc = "for"
    /\ idx <= Len(onion_sites)
    /\ \E i \in 1..Len(accessible_sites) :
          /\ "domain" \in DOMAIN accessible_sites[i]
          /\ accessible_sites[i].domain = onion_sites[idx].domain

\* the candidates whose GET returned HTTP 200 (ok) or ended otherwise
Probed(ok) == {r.link : r \in {q \in probeLog : q.ok = ok}}

C2_FinalSaveOnEveryExit ==
    [][ /\ (pc \in LoopPcs /\ pc' \notin LoopPcs) =>
              (pc' = "final" /\ exit_via' \in {"page_bound"} \cup Raised)
        /\ (pc = "final") =>
              /\ pc' = "done"
              /\ last'.op = "final_save"
              /\ accessible_sites' = accessible_sites
              /\ (last'.outcome = "ok") =>
                    output_file' = SavedDocument(accessible_sites)
        /\ (pc' = "done") => (pc = "final")
      ]_vars

\* interrupted after an append and before the sleep that follows it
C2_Witness ==
    /\ pc = "done"
    /\ exit_via = "KeyboardInterrupt"
    /\ last = Step("final_save", page_number, "ok")
    /\ sites_accessible = 1
    /\ Len(accessible_sites) = 2
    /\ output_file = SavedDocument(accessible_sites)
    /\ nSleep = 0

\* C3: the number of listing-page fetch attempts of a run never exceeds
\* max_pages; a failed fetch consumes page budget like a successful one.
C3_FetchesWithinBudget == nFetch <= max_pages

\* C4: every run of run_checker that passes the connectivity check
\* eventually reaches the final persist step and returns, whatever the
\* outcomes of the page fetches and probes (every call and sleep returning).
C4_RunTerminates == (pc = "while") ~> (pc = "done")

\* C5: if the connectivity check fails (non-200 status or any exception of
\* the diagnostic request), run_checker is Aborted and has performed no
\* listing-page fetch and no probe.
C5_FailedCheckAborts ==
    (tor_result \notin {"none", "200"}) =>
        /\ pc = "aborted"
        /\ nFetch = 0
        /\ nProbeReq = 0
        /\ last.op = "tor"

C5_Witness ==
    /\ pc = "aborted"
    /\ tor_result = "200_bad_json"
    /\ max_pages > 0

\* C6: when the fetch of page N fails, the next action of the driver is the
\* fetch of page N+1 with no sleep in between, page N is never fetched again
\* in the run, and no entry is appended or saved on account of page N.
C6_FailedPageSkipped ==
    [][ /\ (last'.op = "fetch_failed" /\ nFetch' = nFetch + 1) =>
              /\ pc' = "while"
              /\ pages_checked' < max_pages'
              /\ page_number' = page_number + 1
              /\ nSleep' = nSleep /\ nPageSleep' = nPageSleep
              /\ accessible_sites' = accessible_sites
              /\ output_file' = output_file
              /\ dirty' = dirty
        /\ (last.op = "fetch_failed" /\ last'.op # "raise") =>
              /\ last'.op \in {"fetch_failed", "fetch_ok"}
              /\ last'.page = last.page + 1
        /\ (nFetch' = nFetch + 1) =>
              /\ page_number \notin Range(fetched)
              /\ fetched' = Append(fetched, page_number)
      ]_vars

\* page StartPage failed, page StartPage + 1 was fetched next
C6_Witness ==
    /\ last.op = "fetch_ok"
    /\ pages_checked = 0
    /\ fetched = <<StartPage, StartPage + 1>>
    /\ nSleep = 0 /\ nPageSleep = 0

\* C7: for every candidate whose domain is the domain of an entry of the
\* in-memory set, test_onion_site_accessibility returns the not-reachable
\* result, issues no network request and changes neither set nor candidate.
C7_KnownDomainSkipped ==
    [][ (KnownCandidate /\ last'.op = "probe") =>
            /\ last'.outcome = "skipped"
            /\ pc' = "sleep"
            /\ nProbeReq' = nProbeReq
            /\ accessible_sites' = accessible_sites
            /\ onion_sites' = onion_sites
      ]_vars

\* C8: test_onion_site_accessibility raises nothing to run_checker, for
\* every candidate and every in-memory set: after a probe the for loop
\* goes on (to the append or to the sleep before the next candidate).
C8_ProbeNeverRaises ==
    (last.op = "probe") => (pc \in {"append", "sleep"})

\* C9: every candidate whose probe is reachable is appended and a full
\* save_sites is performed before the following sleep and before any later
\* probe or page fetch; after each successful save the persisted entries
\* equal the in-memory entries.
C9_SavedBeforeGoingOn ==
    /\ (pc \in {"sleep", "for", "while", "pagesleep"}) => ~dirty
    /\ (pc = "append") =>
            /\ last = Step("probe", page_number, "200")
            /\ onion_sites[idx].link \in Probed(TRUE)
    /\ (pc = "save") =>
            /\ dirty
            /\ accessible_sites[Len(accessible_sites)] = onion_sites[idx]
    /\ (pc \in {"sleep", "for"}) =>
            \A k \in 1..Len(onion_sites) :
                (onion_sites[k].link \in Probed(TRUE)) =>
                    \E i \in 1..Len(accessible_sites) :
                        accessible_sites[i] = onion_sites[k]
    /\ JustSaved =>
            /\ load_existing_sites(output_file) = JsonEntries(accessible_sites)
            /\ ~dirty

\* a reachable candidate, appended and saved, before the sleep that follows
C9_Witness ==
    /\ pc = "sleep"
    /\ last = Step("save", page_number, "ok")
    /\ accessible_sites[Len(accessible_sites)] = onion_sites[idx]
    /\ output_file = SavedDocument(accessible_sites)

\* C10: an entry is appended during a run only if its probe in that run
\* returned HTTP 200; a candidate whose probe ended in another status, a
\* timeout, a connection error or another exception is in neither the
\* in-memory set nor any persisted document.
C10_OnlyReachableAppended ==
    /\ \A i \in 1..Len(accessible_sites) :
          IsCandidate(accessible_sites[i]) =>
              /\ accessible_sites[i].link \in Probed(TRUE)
              /\ accessible_sites[i].link \notin Probed(FALSE)
              /\ accessible_sites[i].status = "accessible"
    /\ LET on_disk == load_existing_sites(output_file) IN
       \A k \in 1..Len(on_disk) :
          \/ on_disk[k] \in Range(load_existing_sites(initial_doc))
          \/ \E i \in 1..Len(accessible_sites) :
                on_disk[k] = JsonEntry(accessible_sites[i])

\* one candidate of the page failed its probe, the next one was appended
C10_Witness ==
    /\ pc = "sleep"
    /\ idx = 2
    /\ onion_sites[1].link \in Probed(FALSE)
    /\ onion_sites[2].link \in Probed(TRUE)
    /\ accessible_sites = <<onion_sites[2]>>
    /\ output_file = SavedDocument(accessible_sites)

\* the domains the entries of a sequence carry
Domains(sites) ==
    {sites[i].domain : i \in {k \in 1..Len(sites) : "domain" \in DOMAIN sites[k]}}

\* how many entries of the sequence carry the domain
Count(d, sites) ==
    Cardinality({i \in 1..Len(sites) :
                    "domain" \in DOMAIN sites[i] /\ sites[i].domain = d})

\* the second run, constructed on a document of the form save_sites writes
RerunOnSavedDocument ==
    /\ run = "second"
    /\ initial_doc.type = "dict"
    /\ DOMAIN initial_doc.value = {"total_accessible_sites", "accessible_sites"}

\* the GET of the candidate at idx has just been issued
JustRequested ==
    last.op = "probe" /\ last.outcome \in {"200"} \cup ProbeFailures

C12_SaveLoadRoundTrip ==
    [][ /\ (run = "first" /\ run' = "second" /\ JustSaved) =>
              /\ accessible_sites' = JsonEntries(accessible_sites)
              /\ \A i \in 1..Len(accessible_sites) :
                    \A k \in DOMAIN accessible_sites[i] \ {"link"} :
                        accessible_sites'[i][k] = accessible_sites[i][k]
        /\ load_existing_sites(LegacyDocument(accessible_sites'))
              = load_existing_sites(SavedDocument(accessible_sites'))
      ]_vars

\* the second run has loaded what the first run saved: a.onion and b.onion
C12_Witness ==
    /\ run = "second"
    /\ last.op = "construct"
    /\ Len(accessible_sites) = 2
    /\ Domains(accessible_sites) = {OnionA, OnionB}
    /\ output_file = SavedDocument(accessible_sites)

\* C13: every document written by save_sites has total_accessible_sites
\* equal to the number of elements of its accessible_sites array, after any
\* sequence of loads, appends and saves.
C13_TotalIsLength ==
    JustSaved =>
        /\ output_file.type = "dict"
        /\ output_file.value.total_accessible_sites
              = Len(output_file.value.accessible_sites)
        /\ Len(output_file.value.accessible_sites) = Len(accessible_sites)

\* the second run loaded two entries, appended a third and saved
C13_Witness ==
    /\ run = "second"
    /\ last = Step("save", page_number, "ok")
    /\ Len(load_existing_sites(initial_doc)) = 2
    /\ sites_accessible = 1
    /\ output_file.value.total_accessible_sites = 3

\* C14: a save that fails on IO is not fatal and leaves the in-memory
\* entries as they are: the driver goes on to the sleep that closes the
\* candidate and to the next candidate, and the next save that succeeds
\* writes every in-memory entry, those whose save had failed included.
C14_FailedSaveNotFatal ==
    [][ /\ (last'.op \in {"save", "final_save"} /\ last'.outcome # "ok") =>
              /\ accessible_sites' = accessible_sites
              /\ sites_accessible' = sites_accessible
              /\ exit_via' = exit_via
              /\ last'.op = "save" => pc' = "sleep" /\ idx' = idx
        /\ (last.op = "save" /\ last.outcome # "ok" /\ last'.op # "raise") =>
              /\ last'.op = "sleep"
              /\ idx' = idx + 1
              /\ pc' = "for"
        /\ (last'.op \in {"save", "final_save"} /\ last'.outcome = "ok") =>
              /\ output_file' = SavedDocument(accessible_sites)
              /\ \A i \in 1..Len(accessible_sites) :
                    JsonEntry(accessible_sites[i])
                        \in Range(load_existing_sites(output_file'))
      ]_vars

\* the save after the first append failed, the save after the second append
\* succeeded and wrote both entries
C14_Witness ==
    /\ run = "first"
    /\ save_failures = 1
    /\ sites_accessible = 2
    /\ last = Step("save", page_number, "ok")
    /\ output_file = SavedDocument(accessible_sites)
    /\ Len(output_file.value.accessible_sites)
          = Len(load_existing_sites(initial_doc)) + 2

\* C15: load_existing_sites never fails: construction always proceeds, and
\* from a missing document or one that cannot be read or parsed the checker
\* starts with the empty sequence.
C15_LoadNeverFails ==
    (pc \in {"start", "crashed"}) =>
        /\ pc = "start"
        /\ (initial_doc.type \notin {"dict", "list"}) => accessible_sites = <<>>

\* C16: in run_checker one inter-request sleep follows every candidate of a
\* fetched page whatever its probe gave (reachable, failed, skipped as
\* known), one page sleep follows every processed page but the last of the
\* run, and no other step sleeps.  A step of Raise is an interruption from
\* outside and ends the counting.
C16_SleepAfterEveryCandidate ==
    [][ /\ (last.op = "probe" /\ last'.op # "raise") =>
              last'.op \in {"append", "sleep"}
        /\ (last.op = "append" /\ last'.op # "raise") => last'.op = "save"
        /\ (last.op = "save" /\ last'.op # "raise") => last'.op = "sleep"
        /\ (last'.op = "sleep") =>
              /\ last.op \in {"probe", "save"}
              /\ nSleep' = nSleep + 1
              /\ nPageSleep' = nPageSleep
              /\ idx' = idx + 1
        /\ (last.op = "page_done" /\ last'.op # "raise") =>
              (last'.op = "page_sleep" <=> pages_checked < max_pages)
        /\ (last'.op = "page_sleep") =>
              /\ last.op = "page_done"
              /\ nPageSleep' = nPageSleep + 1
              /\ nSleep' = nSleep
        /\ (run' = run /\ last'.op \notin {"sleep", "page_sleep"}) =>
              /\ nSleep' = nSleep
              /\ nPageSleep' = nPageSleep
        /\ (pc = "for") =>
              nSleep = sites_found - Len(onion_sites) + idx - 1
        /\ (pc = "while") =>
              /\ nSleep = sites_found
              /\ nPageSleep = IF pages_checked > 0 /\ pages_checked >= max_pages
                              THEN pages_checked - 1 ELSE pages_checked
      ]_vars

\* The reference extractor of the specification: an href has a scheme when
\* it begins with "scheme://"; an href without one is prefixed with the
\* default scheme after its leading "/" are stripped.
HasScheme(href) == Len(href) > 0 /\ href[1] \in {"http://", "https://"}

ReferenceUrl(href) ==
    IF HasScheme(href) THEN href ELSE <<"http://">> \o LStripSlash(href)

RECURSIVE ReferenceLinks(_, _, _)
ReferenceLinks(links, page, n) ==
    IF links = <<>> THEN <<>>
    ELSE LET href == links[1]
             rest == ReferenceLinks(Tail(links), page, n + 1)
         IN IF (EndsWith(href, ".onion") \/ ContainsOnionSlash(href))
               /\ EndsWith(Netloc(ReferenceUrl(href)), ".onion")
            THEN <<[domain |-> Netloc(ReferenceUrl(href)),
                    url |-> ReferenceUrl(href),
                    link |-> <<page, n>>]>> \o rest
            ELSE rest

ReferenceResult(html) ==
    IF ~html.link_list THEN <<>>
    ELSE ReferenceLinks(html.links, html.page, 1)

\* C17: extract_onion_sites returns, in document order, the reference
\* result for every listing the driver hands it; markup without the
\* link_list element gives the empty sequence, the href 'a.onion' gives
\* domain 'a.onion' and url 'http://a.onion', 'notonion.com' gives nothing.
C17_ExtractIsReference ==
    /\ ("links" \in DOMAIN html_content) =>
          /\ extract_onion_sites(html_content) = ReferenceResult(html_content)
          /\ last.op = "fetch_ok" =>
                onion_sites = ReferenceResult(html_content)
          /\ ~html_content.link_list => extract_onion_sites(html_content) = <<>>
    /\ extract_onion_sites([page |-> StartPage, link_list |-> TRUE,
                            links |-> << OnionA, <<"notonion", ".com">> >>])
          = << [domain |-> OnionA, url |-> <<"http://">> \o OnionA,
                link |-> <<StartPage, 1>>] >>

\* C18: after the load, every step of run_checker leaves accessible_sites
\* as it is or puts exactly one entry at its end: no entry is removed, moved
\* or replaced, and only the step after a reachable probe extends it.
C18_AppendOnly ==
    [][ (run' = run) =>
          /\ Len(accessible_sites') \in
                {Len(accessible_sites), Len(accessible_sites) + 1}
          /\ \A i \in 1..Len(accessible_sites) :
                accessible_sites'[i] = accessible_sites[i]
          /\ (accessible_sites' # accessible_sites) =>
                /\ last = Step("probe", page_number, "200")
                /\ last'.op = "append"
                /\ accessible_sites'
                      = Append(accessible_sites, onion_sites[idx])
          /\ (last'.op \in {"tor", "fetch_ok", "fetch_failed", "probe",
                             "save", "final_save", "sleep", "page_done",
                             "page_sleep", "loop_exit", "raise"}) =>
                accessible_sites' = accessible_sites
      ]_vars

\* an entry was put behind two loaded ones, which kept their places
C18_Witness ==
    /\ last.op = "append"
    /\ Len(accessible_sites) = 3
    /\ SubSeq(accessible_sites, 1, 2) = load_existing_sites(initial_doc)
    /\ IsCandidate(accessible_sites[3])

\* the entries a document of an accepted shape holds: the elements of a
\* bare array, or of the accessible_sites array of the enclosing object
DocEntries(doc) ==
    IF doc.type = "list" THEN doc.value
    ELSE IF doc.type = "dict" /\ "accessible_sites" \in DOMAIN doc.value
         THEN doc.value.accessible_sites
    ELSE <<>>

C20_PreviousDocumentIntact ==
    \/ output_file = initial_doc
    \/ \E n \in 0..Len(accessible_sites) :
          output_file = SavedDocument(SubSeq(accessible_sites, 1, n))

TypeOK ==
    /\ pc \in LoopPcs \cup {"start", "aborted", "final", "done", "crashed"}
    /\ run \in {"first", "second"}
    /\ pages_checked \in 0..MaxPagesBound
    /\ nFetch \in 0..MaxFetches

====
